---------------------------- MODULE Spec2Model ----------------------------
(*************************************************************************)
(* Bank queue simulator (BankSimulator + getSnapshotAtTime).             *)
(*                                                                       *)
(* Time is a number of ticks.  One tick is half of the comparator's      *)
(* tolerance (0.0001 minute), so that two timestamps one tick apart are  *)
(* "equal" for the in-loop pq.sort comparator while being different for  *)
(* every other comparison of the program (<=, >, -).                     *)
(*************************************************************************)
EXTENDS Integers, Sequences, FiniteSets, TLC

\* ------------------------------------------------------------------ bounds
MaxCustomers == 3

\* --------------------------------------------------------------- constants
\* pq.sort comparator: Math.abs(a.time - b.time) < 0.0001, in ticks
Tolerance == 2
\* ticks in one minute (a tick is 0.00005 minute)
Minute == 20000
\* the value null of serviceStartTime / serviceEndTime / tellerId
NULL == -1

WALK_IN == "Walk-in"
RESERVED == "Reserved"
HIGH_COUNTER == "High Counter (Short)"
LOW_COUNTER == "Low Counter (Long)"
HAPPY == "Happy"
NEUTRAL == "Neutral"
ANGRY == "Angry"

CustomerType == {WALK_IN, RESERVED}
ServiceType == {HIGH_COUNTER, LOW_COUNTER}
Sentiment == {HAPPY, NEUTRAL, ANGRY}

\* ------------------------------------------------------------------ inputs
\* The configuration the simulator is constructed with.
SimulationConfig ==
  [ durationMinutes |-> 10 * Minute,
    arrivalRatePerHour |-> 6,
    percentReserved |-> 20,
    percentHighCounterTasks |-> 60,
    highCounter |-> [count |-> 2, serviceMin |-> 15 * Minute,
                     serviceMode |-> 15 * Minute, serviceMax |-> 20 * Minute],
    lowCounter  |-> [count |-> 1, serviceMin |-> 10 * Minute,
                     serviceMode |-> 10 * Minute, serviceMax |-> 25 * Minute] ]

\* The number x / 0 is for x > 0: larger than every time of a run.
Infinity == 100000 * Minute

\* Values randomExponential(lambda) = -Math.log(1 - u) / lambda can return,
\* lambda given as the rate per hour (the code passes the rate per minute,
\* arrivalRatePerHour / 60).  For lambda > 0 the samples are 0 (u = 0), one
\* tick, the mean 1 / lambda (u = 1 - 1/e), one tick less than the mean,
\* and a hundred times the mean (u = 1 - 1/e^100).  For lambda = 0 every
\* u > 0 gives Infinity (u = 0, which gives NaN, is not sampled).  For
\* lambda < 0 the values are those of -lambda, negated.
randomExponential(lambda) ==
  LET mean == (60 * Minute) \div (IF lambda < 0 THEN -lambda ELSE lambda)
      samples == {0, 1, mean - 1, mean, 100 * mean}
  IN  IF lambda > 0 THEN samples
      ELSE IF lambda = 0 THEN {Infinity}
      ELSE {-x : x \in samples}

\* Values Math.random() * 100 < percent can take: Math.random() is in
\* [0, 1), so true needs percent > 0 and false needs percent < 100.
RandomBelow(percent) ==
  {b \in BOOLEAN : IF b THEN percent > 0 ELSE percent < 100}

\* Values randomTriangular(min, max, mode) can return: numbers of
\* [min, max].  The samples are the draws for u = 0, which is min, and for
\* u = F = (mode - min) / (max - min), which is mode.
randomTriangular(min, max, mode) == {min, mode}

\* Times at which a snapshot is taken.
SnapshotTimes == {0, 5 * Minute, 10 * Minute, 15 * Minute}

VARIABLES
  config,         \* this.config
  pc,             \* position: "generate", "process", "simulate", "metrics"
                  \*   inside run(), "done" once run() has returned,
                  \*   "shown" once a snapshot of the result was taken
  time,           \* generateArrivals: let time
  idCounter,      \* generateArrivals: let idCounter
  customers,      \* this.customers
  events,         \* this.events
  line,           \* the ServiceType simulateQueue is running for
  tellersFreeAt,  \* highTellersFreeAt / lowTellersFreeAt, per ServiceType
  pq,             \* simulateQueue: const pq
  waitingBuffer,  \* simulateQueue: const waitingBuffer (customer ids)
  event,          \* simulateQueue: const event = pq.shift()
  result,         \* the SimulationResult returned by run()
  snapshot,       \* the Snapshot returned by the last getSnapshotAtTime
  steps,          \* simulateQueue: iterations of while (pq.length > 0) made
                  \*   by the running call
  suspended,      \* the locals (line, pq, waitingBuffer, event, steps) of
                  \*   the other simulateQueue call while the two calls are
                  \*   interleaved, NoCall otherwise
  aliased         \* result.customers and result.events are the very arrays
                  \*   this.customers and this.events refer to

vars == << config, pc, time, idCounter, customers, events, line,
           tellersFreeAt, pq, waitingBuffer, event, result, snapshot,
           steps, suspended, aliased >>

\* ----------------------------------------------------------------- helpers
Abs(x) == IF x < 0 THEN -x ELSE x

Max(a, b) == IF a > b THEN a ELSE b

Min(a, b) == IF a < b THEN a ELSE b

RECURSIVE SumSeq(_)
SumSeq(s) == IF s = << >> THEN 0 ELSE Head(s) + SumSeq(Tail(s))

RECURSIVE MaxSeq(_)
MaxSeq(s) ==
  IF Len(s) = 1 THEN s[1] ELSE Max(Head(s), MaxSeq(Tail(s)))

\* the splice left out: the array keeps position i
RemoveAtNone(s, i) == s

\* Array.prototype.splice(i, 1) seen from the array: s without position i
RemoveAt(s, i) == SubSeq(s, 1, i - 1) \o SubSeq(s, i + 1, Len(s))

\* Array.prototype.sort with a consistent comparator (a, b) => key(a) -
\* key(b): a stable sort, by insertion.  keys[i] is the key of s[i]; the
\* result of SortedIndices is the order in which the positions of s come out.
RECURSIVE InsertIndex(_, _, _)
InsertIndex(sorted, i, keys) ==
  IF sorted = << >> THEN << i >>
  ELSE IF keys[sorted[Len(sorted)]] <= keys[i] THEN Append(sorted, i)
  ELSE Append(InsertIndex(SubSeq(sorted, 1, Len(sorted) - 1), i, keys),
              sorted[Len(sorted)])

RECURSIVE SortedIndices(_, _)
SortedIndices(n, keys) ==
  IF n = 0 THEN << >>
  ELSE InsertIndex(SortedIndices(n - 1, keys), n, keys)

StableSort(s, keys) ==
  LET order == SortedIndices(Len(s), keys)
  IN  [k \in 1..Len(s) |-> s[order[k]]]

\* customers.sort((a, b) => a.arrivalTime - b.arrivalTime)
SortByArrivalTime(cs) ==
  StableSort(cs, [k \in 1..Len(cs) |-> cs[k].arrivalTime])

\* the sort by time left out
SortByTimeOmitted(es) == es

\* a sort by time that is not stable: entries of equal time come out in
\* the reverse of the order they were pushed in
SortByTimeTiesReversed(es) ==
  LET reversed == [k \in 1..Len(es) |-> es[Len(es) + 1 - k]]
  IN  StableSort(reversed, [k \in 1..Len(es) |-> reversed[k].time])

\* events.sort((a, b) => a.time - b.time), pq.sort((a, b) => a.time - b.time)
SortByTime(es) == StableSort(es, [k \in 1..Len(es) |-> es[k].time])

\* the customer with the given id (queueCustomers.find(c => c.id === id))
CustomerIndex(cs, id) == CHOOSE i \in 1..Len(cs) : cs[i].id = id

LineConfig(cfg, st) ==
  IF st = HIGH_COUNTER THEN cfg.highCounter ELSE cfg.lowCounter

\* ------------------------------------------------------------ initial state
\* metrics of a result that was not computed yet
NoMetrics ==
  [ avgWaitTime |-> [sum |-> 0, count |-> 1], maxWaitTime |-> 0,
    avgQueueLengthHigh |-> 0, avgQueueLengthLow |-> 0,
    maxQueueLengthHigh |-> 0, maxQueueLengthLow |-> 0,
    avgWaitTimeWalkIn |-> [sum |-> 0, count |-> 1],
    avgWaitTimeReserved |-> [sum |-> 0, count |-> 1],
    throughput |-> 0,
    tellerStats |-> [high |-> << >>, low |-> << >>],
    sentimentStats |-> [happy |-> 0, neutral |-> 0, angry |-> 0] ]

\* App: the snapshot shown while there is no result
EmptySnapshot(cfg) ==
  [ time |-> 0,
    customersInQueueHigh |-> << >>,
    customersInQueueLow |-> << >>,
    customersAtTellerHigh |-> [i \in 0..(cfg.highCounter.count - 1) |-> NULL],
    customersAtTellerLow |-> [i \in 0..(cfg.lowCounter.count - 1) |-> NULL],
    finishedCount |-> 0 ]

\* no simulateQueue call is suspended
NoCall == [line |-> "none"]

\* the event of a simulateQueue call that has shifted none yet
NoEvent ==
  [time |-> 0, type |-> "NONE", customerId |-> NULL, tellerIndex |-> NULL]

\* new BankSimulator(cfg), and run() up to the end of reset()
InitWith(cfg) ==
  /\ config = cfg
  /\ pc = "generate"
  /\ time = 0
  /\ idCounter = 1
  /\ customers = << >>
  /\ events = << >>
  /\ line = HIGH_COUNTER
  /\ tellersFreeAt = [st \in ServiceType |-> << >>]
  /\ pq = << >>
  /\ waitingBuffer = << >>
  /\ event = NoEvent
  /\ result = [customers |-> << >>, events |-> << >>, config |-> cfg,
               metrics |-> NoMetrics]
  /\ snapshot = EmptySnapshot(cfg)
  /\ steps = 0
  /\ suspended = NoCall
  /\ aliased = FALSE

Init == InitWith(SimulationConfig)

\* What the result returned by run() reads as after this.customers and
\* this.events were written: run() returns the two arrays themselves, so
\* a write to an array the result still refers to is seen in the result.
ResultAfter(cs, es) ==
  IF aliased THEN [result EXCEPT !.customers = cs, !.events = es]
  ELSE result

\* -------------------------------------------------------- generateArrivals
\* the customer pushed by one iteration of the loop
NewCustomer(id, isReserved, isHighCounter, arrivalTime, serviceDuration) ==
  [ id |-> id,
    type |-> IF isReserved THEN RESERVED ELSE WALK_IN,
    serviceType |-> IF isHighCounter THEN HIGH_COUNTER ELSE LOW_COUNTER,
    arrivalTime |-> arrivalTime,
    serviceStartTime |-> NULL,
    serviceEndTime |-> NULL,
    tellerId |-> NULL,
    waitTime |-> 0,
    serviceTime |-> serviceDuration,
    sentiment |-> HAPPY ]

\* the entry with customerId: idCounter, read after the increment
ArrivalEventOffByOne(t, id) ==
  [time |-> t, type |-> "ARRIVAL", customerId |-> id + 1, details |-> 0]

\* details is the number n of `Teller n`, 0 when the entry has no details
ArrivalEvent(t, id) ==
  [time |-> t, type |-> "ARRIVAL", customerId |-> id, details |-> 0]

\* the break left out: no accumulated time ends the loop
ExceedsHorizonNever(t, cfg) == FALSE

\* if (time > this.config.durationMinutes) break
ExceedsHorizon(t, cfg) == t > cfg.durationMinutes

\* One iteration of the while loop that pushes a customer.
GenerateArrival ==
  /\ pc = "generate"
  /\ time < config.durationMinutes
  /\ Len(customers) < MaxCustomers
  /\ \E interArrival \in randomExponential(config.arrivalRatePerHour),
        isReserved \in RandomBelow(config.percentReserved),
        isHighCounter \in RandomBelow(config.percentHighCounterTasks) :
       LET t  == time + interArrival
           lc == IF isHighCounter THEN config.highCounter
                                  ELSE config.lowCounter
       IN  /\ ~ExceedsHorizon(t, config)
           /\ \E serviceDuration \in
                   randomTriangular(lc.serviceMin, lc.serviceMax,
                                    lc.serviceMode) :
                 /\ customers' = Append(customers,
                        NewCustomer(idCounter, isReserved, isHighCounter, t,
                                    serviceDuration))
                 /\ events' = Append(events, ArrivalEvent(t, idCounter))
           /\ time' = t
           /\ idCounter' = idCounter + 1
  /\ result' = ResultAfter(customers', events')
  /\ UNCHANGED << config, pc, line, tellersFreeAt, pq, waitingBuffer, event,
                  snapshot, steps, suspended, aliased >>

\* The loop ends: the while condition is false, or the accumulated time
\* exceeds the horizon and the loop breaks.  generateArrivals returns and
\* its locals are gone (they are left at their initial values).
GenerateStop ==
  /\ pc = "generate"
  /\ \/ ~(time < config.durationMinutes)
     \/ /\ time < config.durationMinutes
        /\ \E interArrival \in randomExponential(config.arrivalRatePerHour) :
             ExceedsHorizon(time + interArrival, config)
  /\ pc' = "process"
  /\ time' = 0
  /\ idCounter' = 1
  /\ UNCHANGED << config, customers, events, line, tellersFreeAt,
                  pq, waitingBuffer, event, result, snapshot,
                  steps, suspended, aliased >>

\* ------------------------------------------------------------ simulateQueue
\* The in-loop comparator of pq.sort.
PqCompare(a, b) ==
  IF Abs(a.time - b.time) < Tolerance
  THEN (IF a.type = "TELLER_FREE" THEN -1 ELSE 1)
  ELSE a.time - b.time

\* The orders pq.sort can leave the array in.  The comparator answers 1 for
\* two ARRIVAL events (and -1 for two TELLER_FREE events) of equal time in
\* both directions, so the order of such a pair is left to the sort
\* algorithm of the engine: every order is possible that never puts a
\* before b when the comparator says, asked both ways, that b comes first.
\* PqOrders(q, rest) is the set of these orders of the positions rest of
\* q, built from the positions that can come first.
RECURSIVE PqOrders(_, _)
PqOrders(q, rest) ==
  IF rest = {} THEN { << >> }
  ELSE UNION
    { { << q[i] >> \o o : o \in PqOrders(q, rest \ {i}) } :
      i \in { h \in rest : \A j \in rest :
                ~( PqCompare(q[j], q[h]) < 0 /\ PqCompare(q[h], q[j]) > 0 ) } }

PqSort(q) == PqOrders(q, 1..Len(q))

\* the filter of processEvents left out: every customer is passed
QueueCustomersAll(cs, st) == cs

\* the customer ids of this.customers.filter(c => c.serviceType === st)
QueueCustomers(cs, st) ==
  LET OfLine(c) == c.serviceType = st IN SelectSeq(cs, OfLine)

\* pq after "Add all arrivals" and "Sort initial PQ"
InitialPq(cs, st) ==
  LET qc == QueueCustomers(cs, st)
  IN  SortByTime([k \in 1..Len(qc) |->
        [time |-> qc[k].arrivalTime, type |-> "ARRIVAL",
         customerId |-> qc[k].id, tellerIndex |-> NULL]])

\* popNextCustomer without the search for a Reserved customer: plain FIFO
PopIndexFifo(cs, buffer) == IF Len(buffer) = 0 THEN 0 ELSE 1

\* popNextCustomer: the position in the buffer of the customer it returns
\* (0 for undefined); the buffer holds customer ids
PopIndex(cs, buffer) ==
  LET IsReserved(k) == cs[CustomerIndex(cs, buffer[k])].type = RESERVED
      \* waitingBuffer.findIndex(c => c.type === RESERVED), 0 for -1
      reservedIdx ==
        IF \E k \in 1..Len(buffer) : IsReserved(k)
        THEN CHOOSE k \in 1..Len(buffer) :
               IsReserved(k) /\ \A j \in 1..(k - 1) : ~IsReserved(j)
        ELSE 0
  IN  IF Len(buffer) = 0 THEN 0
      ELSE IF reservedIdx # 0 THEN reservedIdx
      ELSE 1

\* the teller search without the test tellersFreeAt[i] <= currentTime
BestTellerIdxFirst(freeAt, currentTime) ==
  IF DOMAIN freeAt # {} THEN 0 ELSE -1

\* the teller search that takes the free teller with the smallest
\* tellersFreeAt, the one that has been free longest
BestTellerIdxLongestFree(freeAt, currentTime) ==
  IF \E i \in DOMAIN freeAt : freeAt[i] <= currentTime
  THEN CHOOSE i \in DOMAIN freeAt :
         /\ freeAt[i] <= currentTime
         /\ \A j \in DOMAIN freeAt :
              \/ freeAt[j] > freeAt[i]
              \/ (freeAt[j] = freeAt[i] /\ j >= i)
  ELSE -1

\* the first teller with tellersFreeAt[i] <= currentTime, or -1
BestTellerIdx(freeAt, currentTime) ==
  IF \E i \in DOMAIN freeAt : freeAt[i] <= currentTime
  THEN CHOOSE i \in DOMAIN freeAt :
         /\ freeAt[i] <= currentTime
         /\ \A j \in DOMAIN freeAt : j < i => ~(freeAt[j] <= currentTime)
  ELSE -1

\* ----------------------------------------------------------- assignService
\* the sentiment with >= in place of > at both thresholds
SentimentOfInclusive(waitTime) ==
  IF waitTime >= 15 * Minute THEN ANGRY
  ELSE IF waitTime >= 5 * Minute THEN NEUTRAL
  ELSE HAPPY

\* the sentiment of a wait (assignService, "Assign Sentiment")
SentimentOf(waitTime) ==
  IF waitTime > 15 * Minute THEN ANGRY
  ELSE IF waitTime > 5 * Minute THEN NEUTRAL
  ELSE HAPPY

\* assignService without the service time in the end of the service
AssignedNoDuration(c, tellerIdx, startTime) ==
  [c EXCEPT !.serviceStartTime = startTime,
            !.serviceEndTime = startTime,
            !.waitTime = startTime - c.arrivalTime,
            !.tellerId = tellerIdx,
            !.sentiment = SentimentOf(startTime - c.arrivalTime)]

\* assignService with the operands of the wait swapped
AssignedWaitSwapped(c, tellerIdx, startTime) ==
  [c EXCEPT !.serviceStartTime = startTime,
            !.serviceEndTime = startTime + c.serviceTime,
            !.waitTime = c.arrivalTime - startTime,
            !.tellerId = tellerIdx,
            !.sentiment = SentimentOf(c.arrivalTime - startTime)]

\* the customer record after assignService
Assigned(c, tellerIdx, startTime) ==
  [c EXCEPT !.serviceStartTime = startTime,
            !.serviceEndTime = startTime + c.serviceTime,
            !.waitTime = startTime - c.arrivalTime,
            !.tellerId = tellerIdx,
            !.sentiment = SentimentOf(startTime - c.arrivalTime)]

\* assignService pushing the TELLER_FREE event twice
PushTellerFreeTwice(q, c, tellerIdx) ==
  q \o << [time |-> c.serviceEndTime, type |-> "TELLER_FREE",
           customerId |-> NULL, tellerIndex |-> tellerIdx],
          [time |-> c.serviceEndTime, type |-> "TELLER_FREE",
           customerId |-> NULL, tellerIndex |-> tellerIdx] >>

\* pq after assignService has pushed the TELLER_FREE event of the service
PushTellerFree(q, c, tellerIdx) ==
  Append(q, [time |-> c.serviceEndTime, type |-> "TELLER_FREE",
             customerId |-> NULL, tellerIndex |-> tellerIdx])

\* assignService(customer, tellerIdx, startTime, tellersFreeAt, pq), with
\* rest the pq the event was shifted from and buffer the waiting buffer
\* after the step
assignService(id, tellerIdx, startTime, rest, buffer) ==
  LET i == CustomerIndex(customers, id)
      c == Assigned(customers[i], tellerIdx, startTime)
  IN  /\ customers' = [customers EXCEPT ![i] = c]
      /\ tellersFreeAt' =
           [tellersFreeAt EXCEPT ![line][tellerIdx] = c.serviceEndTime]
      /\ events' = events \o
           << [time |-> c.serviceStartTime, type |-> "SERVICE_START",
               customerId |-> c.id, details |-> tellerIdx + 1],
              [time |-> c.serviceEndTime, type |-> "SERVICE_END",
               customerId |-> c.id, details |-> 0] >>
      /\ pq' = PushTellerFree(rest, c, tellerIdx)
      /\ waitingBuffer' = buffer

\* ------------------------------------------------------------ processEvents
\* processEvents up to the first iteration of simulateQueue for the high
\* counters: the teller arrays, the sort of the customers, the initial pq.
BeginProcessEvents ==
  /\ pc = "process"
  /\ pc' = "simulate"
  /\ tellersFreeAt' =
       [st \in ServiceType |->
          [i \in 0..(LineConfig(config, st).count - 1) |-> 0]]
  /\ customers' = SortByArrivalTime(customers)
  /\ line' = HIGH_COUNTER
  /\ pq' = InitialPq(customers', HIGH_COUNTER)
  /\ waitingBuffer' = << >>
  /\ steps' = 0
  /\ result' = ResultAfter(customers', events)
  /\ UNCHANGED << config, time, idCounter, events, event, snapshot,
                  suspended, aliased >>

\* One iteration of the event loop that shifts an ARRIVAL event.
Arrival ==
  /\ pc = "simulate"
  /\ pq # << >>
  /\ \E sorted \in PqSort(pq) :
       LET ev == Head(sorted)
           currentTime == ev.time
           bestTellerIdx == BestTellerIdx(tellersFreeAt[line], currentTime)
       IN  /\ ev.type = "ARRIVAL"
           /\ event' = ev
           /\ IF bestTellerIdx # -1
              THEN assignService(ev.customerId, bestTellerIdx, currentTime,
                                 Tail(sorted), waitingBuffer)
              ELSE /\ waitingBuffer' = Append(waitingBuffer, ev.customerId)
                   /\ pq' = Tail(sorted)
                   /\ UNCHANGED << customers, tellersFreeAt, events >>
  /\ steps' = steps + 1
  /\ result' = ResultAfter(customers', events')
  /\ UNCHANGED << config, pc, time, idCounter, line, snapshot, suspended,
                  aliased >>

\* One iteration of the event loop that shifts a TELLER_FREE event.
TellerFree ==
  /\ pc = "simulate"
  /\ pq # << >>
  /\ \E sorted \in PqSort(pq) :
       LET ev == Head(sorted)
           currentTime == ev.time
           k == PopIndex(customers, waitingBuffer)
       IN  /\ ev.type = "TELLER_FREE"
           /\ event' = ev
           /\ IF k # 0
              THEN assignService(waitingBuffer[k], ev.tellerIndex,
                                 currentTime, Tail(sorted),
                                 RemoveAt(waitingBuffer, k))
              ELSE /\ pq' = Tail(sorted)
                   /\ UNCHANGED << customers, tellersFreeAt, events,
                                   waitingBuffer >>
  /\ steps' = steps + 1
  /\ result' = ResultAfter(customers', events')
  /\ UNCHANGED << config, pc, time, idCounter, line, snapshot, suspended,
                  aliased >>

\* The event loop of the high counters ends; simulateQueue is called for the
\* low counters and builds its pq.
EndHighQueue ==
  /\ pc = "simulate"
  /\ pq = << >>
  /\ line = HIGH_COUNTER
  /\ line' = LOW_COUNTER
  /\ pq' = InitialPq(customers, LOW_COUNTER)
  /\ waitingBuffer' = << >>
  /\ steps' = 0
  /\ UNCHANGED << config, pc, time, idCounter, customers, events,
                  tellersFreeAt, event, result, snapshot, suspended,
                  aliased >>

\* The event loop of the low counters ends; processEvents sorts the events.
EndLowQueue ==
  /\ pc = "simulate"
  /\ pq = << >>
  /\ line = LOW_COUNTER
  /\ events' = SortByTime(events)
  /\ pc' = "metrics"
  /\ steps' = 0
  /\ result' = ResultAfter(customers, events')
  /\ UNCHANGED << config, time, idCounter, customers, line, tellersFreeAt,
                  pq, waitingBuffer, event, snapshot, suspended, aliased >>

\* ------------------------------------------- simulateQueue as a function
\* One iteration of the event loop of a simulateQueue call, as a function
\* of the call (this.customers, the teller array, pq and waitingBuffer of
\* the call) and of the order pq.sort leaves pq in.
LoopStep(call, sorted) ==
  LET ev == Head(sorted)
      currentTime == ev.time
      AssignService(id, tellerIdx, buffer) ==
        LET i == CustomerIndex(call.customers, id)
            c == Assigned(call.customers[i], tellerIdx, currentTime)
        IN  [customers |-> [call.customers EXCEPT ![i] = c],
             tellersFreeAt |->
               [call.tellersFreeAt EXCEPT ![tellerIdx] = c.serviceEndTime],
             pq |-> PushTellerFree(Tail(sorted), c, tellerIdx),
             waitingBuffer |-> buffer]
      bestTellerIdx == BestTellerIdx(call.tellersFreeAt, currentTime)
      k == PopIndex(call.customers, call.waitingBuffer)
  IN  IF ev.type = "ARRIVAL"
      THEN IF bestTellerIdx # -1
           THEN AssignService(ev.customerId, bestTellerIdx,
                              call.waitingBuffer)
           ELSE [call EXCEPT !.pq = Tail(sorted),
                             !.waitingBuffer = Append(@, ev.customerId)]
      ELSE IF k # 0
           THEN AssignService(call.waitingBuffer[k], ev.tellerIndex,
                              RemoveAt(call.waitingBuffer, k))
           ELSE [call EXCEPT !.pq = Tail(sorted)]

\* The values of this.customers the event loop can end with.  An
\* iteration shifts the first event and the next iteration sorts pq again,
\* so one order is followed for each event pq.sort can put first.
RECURSIVE RunLoop(_)
RunLoop(call) ==
  IF call.pq = << >> THEN {call.customers}
  ELSE LET orders == PqSort(call.pq)
       IN  UNION { RunLoop(LoopStep(call,
                     CHOOSE sorted \in orders : Head(sorted) = first)) :
                   first \in {Head(sorted) : sorted \in orders} }

\* The values of this.customers a call simulateQueue(cs.filter(c =>
\* c.serviceType === st), new Array(count).fill(0)) can end with when
\* this.customers is cs.
simulateQueue(cs, st, count) ==
  RunLoop([customers |-> cs,
           tellersFreeAt |-> [i \in 0..(count - 1) |-> 0],
           pq |-> InitialPq(cs, st),
           waitingBuffer |-> << >>])

\* --------------------------------------------------------- calculateMetrics
\* the filter of the finished customers left out
IsFinishedAlways(c) == TRUE

IsFinished(c) == c.serviceEndTime # NULL

\* a / n, without || 1
AverageNoGuard(values) ==
  [sum |-> SumSeq(values), count |-> Len(values)]

\* a / (n || 1), kept as the pair of the sum and the divisor
Average(values) ==
  [sum |-> SumSeq(values),
   count |-> IF Len(values) = 0 THEN 1 ELSE Len(values)]

WaitTimes(cs) == [k \in 1..Len(cs) |-> cs[k].waitTime]

ServiceTimes(cs) == [k \in 1..Len(cs) |-> cs[k].serviceTime]

\* createTellerStats without Math.max(0, .) and Math.min(1, .)
createTellerStatsNoCap(finished, cfg, count, type) ==
  [ k \in 1..count |->
      LET Mine(c) == c.serviceType = type /\ c.tellerId = k - 1
          myCustomers == SelectSeq(finished, Mine)
          busyTime == SumSeq(ServiceTimes(myCustomers))
      IN  [ id |-> k - 1,
            label |-> k,
            servedCount |-> Len(myCustomers),
            busyTime |-> busyTime,
            idleTime |-> cfg.durationMinutes - busyTime,
            utilization |-> [num |-> busyTime,
                             den |-> cfg.durationMinutes] ] ]

\* createTellerStats(count, type, labelPrefix); the row of teller i is at
\* position i + 1; utilization Math.min(1, busyTime / durationMinutes) is
\* kept as the fraction num / den
createTellerStats(finished, cfg, count, type) ==
  [ k \in 1..count |->
      LET Mine(c) == c.serviceType = type /\ c.tellerId = k - 1
          myCustomers == SelectSeq(finished, Mine)
          busyTime == SumSeq(ServiceTimes(myCustomers))
      IN  [ id |-> k - 1,
            label |-> k,
            servedCount |-> Len(myCustomers),
            busyTime |-> busyTime,
            idleTime |-> Max(0, cfg.durationMinutes - busyTime),
            utilization |-> [num |-> Min(cfg.durationMinutes, busyTime),
                             den |-> cfg.durationMinutes] ] ]

Metrics(cs, cfg) ==
  LET finished == SelectSeq(cs, IsFinished)
      waitTimes == WaitTimes(finished)
      IsWalkIn(c) == c.type = WALK_IN
      IsReserved(c) == c.type = RESERVED
      IsHappy(c) == c.sentiment = HAPPY
      IsNeutral(c) == c.sentiment = NEUTRAL
      IsAngry(c) == c.sentiment = ANGRY
  IN  [ avgWaitTime |-> Average(waitTimes),
        maxWaitTime |-> IF Len(waitTimes) > 0 THEN MaxSeq(waitTimes) ELSE 0,
        avgQueueLengthHigh |-> 0,
        avgQueueLengthLow |-> 0,
        maxQueueLengthHigh |-> 0,
        maxQueueLengthLow |-> 0,
        avgWaitTimeWalkIn |-> Average(WaitTimes(SelectSeq(finished, IsWalkIn))),
        avgWaitTimeReserved |->
          Average(WaitTimes(SelectSeq(finished, IsReserved))),
        throughput |-> Len(finished),
        tellerStats |->
          [ high |-> createTellerStats(finished, cfg, cfg.highCounter.count,
                                       HIGH_COUNTER),
            low |-> createTellerStats(finished, cfg, cfg.lowCounter.count,
                                      LOW_COUNTER) ],
        sentimentStats |->
          [ happy |-> Len(SelectSeq(finished, IsHappy)),
            neutral |-> Len(SelectSeq(finished, IsNeutral)),
            angry |-> Len(SelectSeq(finished, IsAngry)) ] ]

\* calculateMetrics, and run() returns its result
CalculateMetrics ==
  /\ pc = "metrics"
  /\ result' = [customers |-> customers, events |-> events,
                config |-> config, metrics |-> Metrics(customers, config)]
  /\ pc' = "done"
  /\ aliased' = TRUE
  /\ UNCHANGED << config, time, idCounter, customers, events, line,
                  tellersFreeAt, pq, waitingBuffer, event, snapshot,
                  steps, suspended >>

\* -------------------------------------------------------- getSnapshotAtTime
\* the filter of inQueueHigh / inQueueLow
\* the queue test with >= for the start of the service
IsInQueueStartInclusive(c, st, t) ==
  /\ c.serviceType = st
  /\ c.arrivalTime <= t
  /\ (c.serviceStartTime = NULL \/ c.serviceStartTime >= t)

IsInQueue(c, st, t) ==
  /\ c.serviceType = st
  /\ c.arrivalTime <= t
  /\ (c.serviceStartTime = NULL \/ c.serviceStartTime > t)

\* customers of a line in the queue at time t, sorted by arrival time
InQueue(cs, st, t) ==
  LET Waiting(c) == IsInQueue(c, st, t)
      sorted == SortByArrivalTime(SelectSeq(cs, Waiting))
  IN  [k \in 1..Len(sorted) |-> sorted[k].id]

\* the test "currently at teller" without the test of the end
IsAtTellerNoEnd(c, t) ==
  /\ c.serviceStartTime # NULL
  /\ c.serviceStartTime <= t

\* the test "currently at teller" with >= for the end of the service
IsAtTellerEndInclusive(c, t) ==
  /\ c.serviceStartTime # NULL
  /\ c.serviceStartTime <= t
  /\ (c.serviceEndTime = NULL \/ c.serviceEndTime >= t)

\* the test "currently at teller" of customers.forEach
IsAtTeller(c, t) ==
  /\ c.serviceStartTime # NULL
  /\ c.serviceStartTime <= t
  /\ (c.serviceEndTime = NULL \/ c.serviceEndTime > t)

\* the teller array of a line after customers.forEach ran over the first n
\* customers; a slot holds the id of the customer, or NULL
RECURSIVE AtTeller(_, _, _, _, _)
AtTeller(cs, n, st, count, t) ==
  IF n = 0 THEN [i \in 0..(count - 1) |-> NULL]
  ELSE LET before == AtTeller(cs, n - 1, st, count, t)
           c == cs[n]
       IN  IF /\ IsAtTeller(c, t)
              /\ c.serviceType = st
              /\ c.tellerId # NULL
              /\ c.tellerId < count
           THEN [before EXCEPT ![c.tellerId] = c.id]
           ELSE before

\* finishedCount with < for the end of the service
FinishedCountStrict(cs, t) ==
  LET Done(c) == c.serviceEndTime # NULL /\ c.serviceEndTime < t
  IN  Len(SelectSeq(cs, Done))

\* finishedCount without the test for null (null <= time is true)
FinishedCountNoNullTest(cs, t) ==
  LET Done(c) == c.serviceEndTime <= t
  IN  Len(SelectSeq(cs, Done))

\* finishedCount
FinishedCount(cs, t) ==
  LET Done(c) == c.serviceEndTime # NULL /\ c.serviceEndTime <= t
  IN  Len(SelectSeq(cs, Done))

getSnapshotAtTime(res, t) ==
  LET cs == res.customers
  IN  [ time |-> t,
        customersInQueueHigh |-> InQueue(cs, HIGH_COUNTER, t),
        customersInQueueLow |-> InQueue(cs, LOW_COUNTER, t),
        customersAtTellerHigh |->
          AtTeller(cs, Len(cs), HIGH_COUNTER, res.config.highCounter.count, t),
        customersAtTellerLow |->
          AtTeller(cs, Len(cs), LOW_COUNTER, res.config.lowCounter.count, t),
        finishedCount |-> FinishedCount(cs, t) ]

\* App: the snapshot of the result at the playback time
GetSnapshot ==
  /\ pc \in {"done", "shown"}
  /\ \E t \in SnapshotTimes : snapshot' = getSnapshotAtTime(result, t)
  /\ pc' = "shown"
  /\ UNCHANGED << config, time, idCounter, customers, events, line,
                  tellersFreeAt, pq, waitingBuffer, event, result,
                  steps, suspended, aliased >>

\* ------------------------------------------------------------ specification
Next ==
  \/ GenerateArrival
  \/ GenerateStop
  \/ BeginProcessEvents
  \/ Arrival
  \/ TellerFree
  \/ EndHighQueue
  \/ EndLowQueue
  \/ CalculateMetrics
  \/ GetSnapshot

Spec == Init /\ [][Next]_vars

\* -------------------------------------------------- further configurations
\* One high counter with services of five minutes, a horizon of an hour,
\* every customer a Walk-in for the high counters.
ScenarioConfig ==
  [ durationMinutes |-> 60 * Minute,
    arrivalRatePerHour |-> 6,
    percentReserved |-> 0,
    percentHighCounterTasks |-> 100,
    highCounter |-> [count |-> 1, serviceMin |-> 5 * Minute,
                     serviceMode |-> 5 * Minute, serviceMax |-> 10 * Minute],
    lowCounter  |-> [count |-> 1, serviceMin |-> 10 * Minute,
                     serviceMode |-> 10 * Minute, serviceMax |-> 25 * Minute] ]

\* No low counter, while 40 percent of the customers are for the low
\* counters.
ZeroTellerConfig ==
  [SimulationConfig EXCEPT !.percentReserved = 0, !.lowCounter.count = 0]

\* An arrival rate of zero.
ZeroRateConfig == [SimulationConfig EXCEPT !.arrivalRatePerHour = 0]

\* A triangular distribution with min = mode = max for the low counters,
\* every customer a Walk-in for the low counters.
EqualBoundsConfig ==
  [SimulationConfig EXCEPT !.percentReserved = 0,
                           !.percentHighCounterTasks = 0,
                           !.lowCounter.serviceMax = 10 * Minute]

\* Two high counters with services of five minutes, a horizon of an hour.
TwoTellerConfig == [ScenarioConfig EXCEPT !.highCounter.count = 2]

Configs ==
  {ScenarioConfig, ZeroTellerConfig, ZeroRateConfig, EqualBoundsConfig,
   TwoTellerConfig}

\* Times at which a snapshot of a run with one of these is taken.
ScenarioTimes == {12 * Minute, 16 * Minute}

InitConfigs == \E cfg \in Configs : InitWith(cfg)

\* App: the snapshot of the result at one of these playback times
GetScenarioSnapshot ==
  /\ pc \in {"done", "shown"}
  /\ \E t \in ScenarioTimes : snapshot' = getSnapshotAtTime(result, t)
  /\ pc' = "shown"
  /\ UNCHANGED << config, time, idCounter, customers, events, line,
                  tellersFreeAt, pq, waitingBuffer, event, result,
                  steps, suspended, aliased >>

NextConfigs ==
  \/ GenerateArrival
  \/ GenerateStop
  \/ BeginProcessEvents
  \/ Arrival
  \/ TellerFree
  \/ EndHighQueue
  \/ EndLowQueue
  \/ CalculateMetrics
  \/ GetScenarioSnapshot

SpecConfigs == InitConfigs /\ [][NextConfigs]_vars


\* ------------------------------------------------------------------ claims
Ids == 1..Len(customers)

IsAssigned(c) == c.serviceStartTime # NULL

\* an iteration of the event loop is about to run
InLoop == pc = "simulate" /\ pq # << >>

\* the event loop of the current line has terminated
LoopEnded == pc = "simulate" /\ pq = << >>

\* C1: the [start, end) intervals of two customers of the same line that
\* were assigned the same teller never overlap.
C1_NoOverlap ==
  \A i, j \in Ids :
    ( /\ i # j
      /\ IsAssigned(customers[i]) /\ IsAssigned(customers[j])
      /\ customers[i].serviceType = customers[j].serviceType
      /\ customers[i].tellerId = customers[j].tellerId )
    => \/ customers[i].serviceEndTime <= customers[j].serviceStartTime
       \/ customers[j].serviceEndTime <= customers[i].serviceStartTime

\* two customers were served one after the other by the same teller
C1_Witness ==
  /\ pc = "done"
  /\ \E i, j \in Ids :
       /\ i # j
       /\ IsAssigned(customers[i]) /\ IsAssigned(customers[j])
       /\ customers[i].serviceType = customers[j].serviceType
       /\ customers[i].tellerId = customers[j].tellerId
       /\ customers[i].serviceEndTime = customers[j].serviceStartTime

\* C2: an assigned customer has waitTime = start - arrival >= 0 and
\* end = start + serviceTime.
C2_WaitAndEnd ==
  \A i \in Ids :
    IsAssigned(customers[i]) =>
      /\ customers[i].waitTime =
           customers[i].serviceStartTime - customers[i].arrivalTime
      /\ customers[i].waitTime >= 0
      /\ customers[i].serviceEndTime =
           customers[i].serviceStartTime + customers[i].serviceTime

\* a customer that waited was assigned
C2_Witness ==
  \E i \in Ids :
    /\ IsAssigned(customers[i])
    /\ customers[i].waitTime > 0
    /\ customers[i].arrivalTime > 0

\* the buffer holds a customer of the type
BufferHas(type) ==
  \E k \in 1..Len(waitingBuffer) :
    customers[CustomerIndex(customers, waitingBuffer[k])].type = type

\* C3: a TELLER_FREE event processed while a Reserved and a Walk-in customer
\* wait assigns the freed teller to a Reserved customer.
C3_ReservedFirst ==
  [][ ( /\ InLoop
        /\ event'.type = "TELLER_FREE"
        /\ BufferHas(RESERVED) /\ BufferHas(WALK_IN) )
      => \E k \in 1..Len(waitingBuffer) :
           LET i == CustomerIndex(customers, waitingBuffer[k])
           IN  /\ customers[i].type = RESERVED
               /\ ~IsAssigned(customers[i])
               /\ customers'[i].serviceStartTime = event'.time
               /\ customers'[i].tellerId = event'.tellerIndex
               /\ \A j \in Ids \ {i} : customers'[j] = customers[j] ]_vars

\* a Reserved customer has just been taken from the buffer by a TELLER_FREE
\* event while a Walk-in customer that arrived before it is still waiting
C3_Witness ==
  /\ pc = "simulate"
  /\ event.type = "TELLER_FREE"
  /\ \E i \in Ids, k \in 1..Len(waitingBuffer) :
       LET w == customers[CustomerIndex(customers, waitingBuffer[k])]
       IN  /\ customers[i].type = RESERVED
           /\ customers[i].serviceType = line
           /\ customers[i].serviceStartTime = event.time
           /\ customers[i].tellerId = event.tellerIndex
           /\ customers[i].waitTime > 0
           /\ w.type = WALK_IN
           /\ w.arrivalTime < customers[i].arrivalTime

\* C4: within one line and one customer type, a customer that arrived
\* strictly before another is never left unassigned while the other is
\* assigned, and does not start later than the other.
C4_Fifo ==
  \A a, b \in Ids :
    ( /\ customers[a].serviceType = customers[b].serviceType
      /\ customers[a].type = customers[b].type
      /\ customers[a].arrivalTime < customers[b].arrivalTime
      /\ IsAssigned(customers[b]) )
    => /\ IsAssigned(customers[a])
       /\ customers[a].serviceStartTime <= customers[b].serviceStartTime

\* C5: when the event loop of a line with at least one teller has
\* terminated, the waiting buffer is empty and every customer of the line
\* has a start time, an end time and a teller.
C5_AllAssigned ==
  ( LoopEnded /\ LineConfig(config, line).count >= 1 )
  => /\ waitingBuffer = << >>
     /\ \A i \in Ids :
          customers[i].serviceType = line =>
            /\ customers[i].serviceStartTime # NULL
            /\ customers[i].serviceEndTime # NULL
            /\ customers[i].tellerId # NULL

\* the scenario of C6 has run: the only two customers are a Walk-in and then
\* a Reserved customer of the low counters (one teller), both arriving at 0
\* with a service of ten minutes
C6_Scenario ==
  /\ pc = "done"
  /\ config.lowCounter.count = 1
  /\ Len(customers) = 2
  /\ customers[1].type = WALK_IN /\ customers[2].type = RESERVED
  /\ \A i \in {1, 2} :
       /\ customers[i].serviceType = LOW_COUNTER
       /\ customers[i].arrivalTime = 0
       /\ customers[i].serviceTime = 10 * Minute

\* C6 as claimed: in the scenario the Reserved customer is served first at
\* t = 0 and the Walk-in customer starts at t = 10 with wait 10, Neutral.
C6_ReservedServedFirst ==
  C6_Scenario =>
    /\ customers[2].serviceStartTime = 0
    /\ customers[1].serviceStartTime = 10 * Minute
    /\ customers[1].waitTime = 10 * Minute
    /\ customers[1].sentiment = NEUTRAL

\* C6, amended: in the scenario the customer whose ARRIVAL event is shifted
\* first takes the free teller at t = 0 with wait 0, whatever its type, and
\* the other one starts at t = 10 with wait 10 and sentiment Neutral.
C6_FirstShiftedServedFirst ==
  C6_Scenario =>
    \E first, second \in {1, 2} :
      /\ first # second
      /\ customers[first].serviceStartTime = 0
      /\ customers[first].waitTime = 0
      /\ customers[first].serviceEndTime = 10 * Minute
      /\ customers[second].serviceStartTime = 10 * Minute
      /\ customers[second].waitTime = 10 * Minute
      /\ customers[second].sentiment = NEUTRAL
      /\ customers[first].tellerId = 0 /\ customers[second].tellerId = 0

\* the scenario has run and the Walk-in customer was served first
C6_Witness ==
  /\ C6_Scenario
  /\ customers[1].serviceStartTime = 0
  /\ customers[2].serviceStartTime = 10 * Minute
  /\ customers[2].sentiment = NEUTRAL

\* the customers of the result with a service end time
FinishedIds == {i \in 1..Len(result.customers) : result.customers[i].serviceEndTime # NULL}

\* C7 as claimed: a snapshot at a time t >= durationMinutes counts every
\* finished customer of the result.
C7_AllFinishedAtHorizon ==
  ( pc = "shown" /\ snapshot.time >= config.durationMinutes )
  => snapshot.finishedCount = result.metrics.throughput

\* C7, amended: a snapshot at a time t that is not before any service end
\* time of the result counts every finished customer of the result.
C7_AllFinishedAfterLastEnd ==
  ( /\ pc = "shown"
    /\ \A i \in FinishedIds :
         result.customers[i].serviceEndTime <= snapshot.time )
  => snapshot.finishedCount = result.metrics.throughput

\* a snapshot taken at the end of the last service, which is after the
\* horizon, counts all finished customers
C7_Witness ==
  /\ pc = "shown"
  /\ FinishedIds # {}
  /\ \A i \in FinishedIds :
       result.customers[i].serviceEndTime <= snapshot.time
  /\ \E i \in FinishedIds :
       /\ result.customers[i].serviceEndTime = snapshot.time
       /\ result.customers[i].serviceEndTime > config.durationMinutes
  /\ snapshot.finishedCount = result.metrics.throughput

\* C8: finishedCount is the number of customers, of both lines, whose
\* service end time is defined and <= t, and it is 0 at t = 0.
C8_FinishedCount ==
  pc = "shown" =>
    /\ snapshot.finishedCount =
         Cardinality({i \in FinishedIds :
                        result.customers[i].serviceEndTime <= snapshot.time})
    /\ (snapshot.time = 0 => snapshot.finishedCount = 0)

\* a snapshot that counts a finished customer of each line while a customer
\* is still in service and another one was never assigned
C8_Witness ==
  /\ pc = "shown"
  /\ snapshot.finishedCount = 2
  /\ \E i, j \in FinishedIds :
       /\ result.customers[i].serviceType = HIGH_COUNTER
       /\ result.customers[j].serviceType = LOW_COUNTER
       /\ result.customers[i].serviceEndTime <= snapshot.time
       /\ result.customers[j].serviceEndTime <= snapshot.time
  /\ \E i \in 1..Len(result.customers) : i \notin FinishedIds

\* the customers of a line that are in service at teller i at time t
InService(st, i, t) ==
  {k \in 1..Len(result.customers) :
     LET c == result.customers[k]
     IN  /\ c.serviceType = st
         /\ c.tellerId = i
         /\ c.serviceStartTime # NULL
         /\ c.serviceStartTime <= t
         /\ (c.serviceEndTime = NULL \/ t < c.serviceEndTime)}

SnapshotTellers(st) ==
  IF st = HIGH_COUNTER THEN snapshot.customersAtTellerHigh
                       ELSE snapshot.customersAtTellerLow

\* C9: slot i of a line's teller array holds the one customer of the line
\* with teller i and start <= t < end, and null when there is none; no two
\* customers qualify for a slot.
C9_TellerSlots ==
  pc = "shown" =>
    \A st \in ServiceType :
      /\ DOMAIN SnapshotTellers(st) = 0..(LineConfig(config, st).count - 1)
      /\ \A i \in 0..(LineConfig(config, st).count - 1) :
           LET qualify == InService(st, i, snapshot.time)
           IN  /\ Cardinality(qualify) <= 1
               /\ qualify = {} => SnapshotTellers(st)[i] = NULL
               /\ \A k \in qualify :
                    SnapshotTellers(st)[i] = result.customers[k].id

\* a snapshot taken when a teller has just passed from one customer to the
\* next: the slot holds the second one
C9_Witness ==
  /\ pc = "shown"
  /\ \E st \in ServiceType, a, b \in 1..Len(result.customers) :
      \E i \in DOMAIN SnapshotTellers(st) :
       /\ result.customers[a].serviceType = st
       /\ result.customers[b].serviceType = st
       /\ result.customers[a].tellerId = i
       /\ result.customers[b].tellerId = i
       /\ result.customers[a].serviceEndTime = snapshot.time
       /\ result.customers[b].serviceStartTime = snapshot.time
       /\ SnapshotTellers(st)[i] = result.customers[b].id

C11_Scenario ==
  /\ config = ScenarioConfig
  /\ pc \in {"done", "shown"}
  /\ Len(result.customers) = 1
  /\ result.customers[1].serviceType = HIGH_COUNTER
  /\ result.customers[1].arrivalTime = 10 * Minute
  /\ result.customers[1].serviceTime = 5 * Minute

\* C11: with a horizon of 60, one high counter and exactly one customer,
\* for the high counters, arriving at minute 10 with a service of 5, the
\* customer starts at 10, ends at 15, waits 0 and is Happy, teller 0 is
\* free at 15, the snapshot at 12 has the customer in slot 0 of the high
\* counters, and the snapshot at 16 has finishedCount 1 and slot 0 empty.
C11_SingleCustomer ==
  C11_Scenario =>
    LET c == result.customers[1]
        at12 == getSnapshotAtTime(result, 12 * Minute)
        at16 == getSnapshotAtTime(result, 16 * Minute)
    IN  /\ c.serviceStartTime = 10 * Minute
        /\ c.serviceEndTime = 15 * Minute
        /\ c.waitTime = 0
        /\ c.sentiment = HAPPY
        /\ c.tellerId = 0
        /\ tellersFreeAt[HIGH_COUNTER][0] = 15 * Minute
        /\ at12.customersAtTellerHigh[0] = c.id
        /\ at16.finishedCount = 1
        /\ at16.customersAtTellerHigh[0] = NULL
        /\ (pc = "shown" /\ snapshot.time = 12 * Minute) => snapshot = at12
        /\ (pc = "shown" /\ snapshot.time = 16 * Minute) => snapshot = at16

\* the single customer was served and the snapshot at 16 was taken
C11_Witness ==
  /\ C11_Scenario
  /\ pc = "shown"
  /\ snapshot.time = 16 * Minute
  /\ snapshot.finishedCount = 1

\* the distribution parameters of the configuration are invalid: an arrival
\* rate <= 0, or a triangular distribution with min >= max or with its mode
\* outside [min, max]
InvalidParameters(cfg) ==
  \/ cfg.arrivalRatePerHour <= 0
  \/ \E st \in ServiceType :
       LET lc == LineConfig(cfg, st)
       IN  \/ lc.serviceMin >= lc.serviceMax
           \/ lc.serviceMode < lc.serviceMin
           \/ lc.serviceMode > lc.serviceMax

\* C12: when the distribution parameters are invalid, no customer is
\* generated and the run never completes normally with a result.
C12_InvalidParametersRejected ==
  InvalidParameters(config) =>
    /\ customers = << >>
    /\ pc \notin {"metrics", "done", "shown"}

\* C13: when a line has zero tellers and a customer is routed to it, the
\* run does not complete normally with a result.
C13_ZeroTellerLineRejected ==
  ( \E st \in ServiceType :
      /\ LineConfig(config, st).count = 0
      /\ \E i \in Ids : customers[i].serviceType = st )
  => pc \notin {"metrics", "done", "shown"}

\* the number of customers of the line that is being simulated
LineSize == Len(QueueCustomers(customers, line))

\* the customers of a line that were assigned, in a value of this.customers
AssignedOf(cs, st) ==
  {i \in 1..Len(cs) : cs[i].serviceType = st /\ IsAssigned(cs[i])}

\* the number of positions of q that hold the event e
Occurrences(q, e) == Cardinality({k \in 1..Len(q) : q[k] = e})

\* C14: the event loop of a line terminates.  An iteration consumes
\* exactly one event of pq, the one it shifted; it adds exactly one
\* TELLER_FREE event, at the end of the service, when it assigns a
\* customer and none otherwise; the events processed and the events
\* pending are together at most 2N for the N customers of the line, so
\* that the loop ends after at most 2N iterations, one per arrival and
\* one per assignment.
C14_LoopBounded ==
  [][ InLoop =>
        LET newly == AssignedOf(customers', line) \ AssignedOf(customers, line)
            pushed == { [time |-> customers'[i].serviceEndTime,
                         type |-> "TELLER_FREE", customerId |-> NULL,
                         tellerIndex |-> customers'[i].tellerId] : i \in newly }
            Delta(e) == (IF e \in pushed THEN 1 ELSE 0)
                        - (IF e = event' THEN 1 ELSE 0)
        IN  /\ steps' = steps + 1
            /\ Cardinality(newly) <= 1
            /\ Occurrences(pq, event') >= 1
            /\ \A e \in {pq[k] : k \in 1..Len(pq)}
                       \cup {pq'[k] : k \in 1..Len(pq')} :
                  Occurrences(pq', e) = Occurrences(pq, e) + Delta(e)
            /\ Len(pq') = Len(pq) - 1 + Cardinality(newly)
            /\ steps' + Len(pq') <= 2 * LineSize
            /\ pq' = << >> =>
                  steps' = LineSize + Cardinality(AssignedOf(customers', line))
    ]_vars

\* the loop of a line with two or more customers has ended after exactly
\* 2N iterations, and one of the customers had to wait
C14_Witness ==
  /\ LoopEnded
  /\ LineSize >= 2
  /\ steps = 2 * LineSize
  /\ \E i \in Ids :
       customers[i].serviceType = line /\ customers[i].waitTime > 0

\* C15: for a fixed set of customers and a fixed number of tellers the
\* event loop of a line has one outcome: the same assignments, teller
\* indices and wait times in every run, also when several events of the
\* same kind carry the same timestamp.
C15_Deterministic ==
  (pc = "simulate" /\ steps = 0) =>
    Cardinality(simulateQueue(customers, line,
                              LineConfig(config, line).count)) = 1

\* ------------------------------------------- the two lines interleaved
\* Every customer a Walk-in, for either line.
InterleavedConfig == [SimulationConfig EXCEPT !.percentReserved = 0]

InitInterleaved == InitWith(InterleavedConfig)

\* processEvents with the two simulateQueue calls started together: the
\* call for the high counters runs, the call for the low counters is
\* suspended before its first iteration.
BeginInterleaved ==
  /\ pc = "process"
  /\ pc' = "simulate"
  /\ tellersFreeAt' =
       [st \in ServiceType |->
          [i \in 0..(LineConfig(config, st).count - 1) |-> 0]]
  /\ customers' = SortByArrivalTime(customers)
  /\ line' = HIGH_COUNTER
  /\ pq' = InitialPq(customers', HIGH_COUNTER)
  /\ waitingBuffer' = << >>
  /\ steps' = 0
  /\ suspended' = [line |-> LOW_COUNTER,
                   pq |-> InitialPq(customers', LOW_COUNTER),
                   waitingBuffer |-> << >>, event |-> NoEvent, steps |-> 0]
  /\ result' = ResultAfter(customers', events)
  /\ UNCHANGED << config, time, idCounter, events, event, snapshot,
                  aliased >>

\* Between two iterations the running call is suspended and the other
\* call, which has events left, goes on.
SwitchLine ==
  /\ pc = "simulate"
  /\ suspended # NoCall
  /\ suspended.pq # << >>
  /\ line' = suspended.line
  /\ pq' = suspended.pq
  /\ waitingBuffer' = suspended.waitingBuffer
  /\ event' = suspended.event
  /\ steps' = suspended.steps
  /\ suspended' = [line |-> line, pq |-> pq,
                   waitingBuffer |-> waitingBuffer, event |-> event,
                   steps |-> steps]
  /\ UNCHANGED << config, pc, time, idCounter, customers, events,
                  tellersFreeAt, result, snapshot, aliased >>

\* The event loops of both calls have ended; processEvents sorts the events.
EndInterleaved ==
  /\ pc = "simulate"
  /\ suspended # NoCall
  /\ pq = << >>
  /\ suspended.pq = << >>
  /\ events' = SortByTime(events)
  /\ pc' = "metrics"
  /\ steps' = 0
  /\ suspended' = NoCall
  /\ result' = ResultAfter(customers, events')
  /\ UNCHANGED << config, time, idCounter, customers, line, tellersFreeAt,
                  pq, waitingBuffer, event, snapshot, aliased >>

NextInterleaved ==
  \/ GenerateArrival
  \/ GenerateStop
  \/ BeginInterleaved
  \/ Arrival
  \/ TellerFree
  \/ SwitchLine
  \/ EndInterleaved
  \/ CalculateMetrics

SpecInterleaved == InitInterleaved /\ [][NextInterleaved]_vars

\* the customers of a line as generateArrivals pushed them
Unserved(cs, st) ==
  LET OfLine(c) == c.serviceType = st
      own == SelectSeq(cs, OfLine)
  IN  [k \in 1..Len(own) |->
         [own[k] EXCEPT !.serviceStartTime = NULL, !.serviceEndTime = NULL,
                        !.tellerId = NULL, !.waitTime = 0,
                        !.sentiment = HAPPY]]

\* the customers of a line as they are now
Served(cs, st) ==
  LET OfLine(c) == c.serviceType = st IN SelectSeq(cs, OfLine)

\* C16: the two lines are independent.  However the iterations of the two
\* event loops are ordered (high line first, low line first, interleaved),
\* the start, end, wait and teller of the customers of a line are an
\* outcome of the event loop of that line run alone, on the customers of
\* that line only and with the tellers of that line only.
C16_LinesIndependent ==
  pc = "done" =>
    \A st \in ServiceType :
      Served(result.customers, st) \in
        simulateQueue(Unserved(result.customers, st), st,
                      LineConfig(config, st).count)

\* both event loops are under way, each with iterations made and events
\* left, and a customer is waiting
C16_Witness ==
  /\ pc = "simulate"
  /\ suspended # NoCall
  /\ steps > 0 /\ suspended.steps > 0
  /\ pq # << >> /\ suspended.pq # << >>
  /\ waitingBuffer # << >>

\* ------------------------------------------------------------ run() again
\* Every customer a Walk-in for the low counters.
RerunConfig ==
  [SimulationConfig EXCEPT !.arrivalRatePerHour = 3,
                           !.percentReserved = 0,
                           !.percentHighCounterTasks = 0]

InitRerun == InitWith(RerunConfig)

\* reset() emptying the two arrays in place (this.customers.length = 0)
ResetKeepsArraysInPlace == TRUE

\* reset() leaves this.customers and this.events referring to the arrays
\* they referred to before: no, it assigns new arrays ([])
ResetKeepsArrays == FALSE

\* run() is called again on the simulator that has returned a result, up
\* to the end of reset(); the locals of the earlier call are gone.
RunAgain ==
  /\ pc \in {"done", "shown"}
  /\ pc' = "generate"
  /\ customers' = << >>
  /\ events' = << >>
  /\ aliased' = (aliased /\ ResetKeepsArrays)
  /\ result' = IF aliased'
               THEN [result EXCEPT !.customers = << >>, !.events = << >>]
               ELSE result
  /\ time' = 0
  /\ idCounter' = 1
  /\ line' = HIGH_COUNTER
  /\ tellersFreeAt' = [st \in ServiceType |-> << >>]
  /\ pq' = << >>
  /\ waitingBuffer' = << >>
  /\ event' = NoEvent
  /\ steps' = 0
  /\ UNCHANGED << config, snapshot, suspended >>

NextRerun ==
  \/ GenerateArrival
  \/ GenerateStop
  \/ BeginProcessEvents
  \/ Arrival
  \/ TellerFree
  \/ EndHighQueue
  \/ EndLowQueue
  \/ CalculateMetrics
  \/ RunAgain

SpecRerun == InitRerun /\ [][NextRerun]_vars

\* C18: a result, once run() has returned it, does not change: no step of
\* a later run() on the same simulator changes its customers, its event
\* log or its metrics.  (The variable result is the last result returned;
\* the step of calculateMetrics that returns the next result replaces it.)
C18_ResultImmutable ==
  [][ pc # "metrics" => result' = result ]_vars

\* a second run() is assigning customers while the result of the first
\* run(), which had customers, is still held
C18_Witness ==
  /\ pc = "simulate"
  /\ steps > 0
  /\ result.customers # << >>
  /\ customers # result.customers
  /\ \E i \in Ids : IsAssigned(customers[i])

\* C19: the free-at value of a teller never decreases during the event
\* loops: every write to tellersFreeAt[s] writes a value >= the value it
\* replaces.
C19_FreeAtMonotone ==
  [][ pc = "simulate" =>
        \A st \in ServiceType : \A i \in DOMAIN tellersFreeAt[st] :
          tellersFreeAt'[st][i] >= tellersFreeAt[st][i] ]_vars

\* a teller has served two customers, the second from the waiting buffer,
\* and its free-at is the end of the second service
C19_Witness ==
  /\ pc = "simulate"
  /\ \E i, j \in Ids :
       /\ i # j
       /\ IsAssigned(customers[i]) /\ IsAssigned(customers[j])
       /\ customers[i].serviceType = line
       /\ customers[j].serviceType = line
       /\ customers[i].tellerId = customers[j].tellerId
       /\ customers[j].waitTime > 0
       /\ customers[i].serviceEndTime < customers[j].serviceEndTime
       /\ tellersFreeAt[line][customers[j].tellerId]
            = customers[j].serviceEndTime

\* C20: the event log of the result is chronological: the timestamps of
\* result.events are non-decreasing.
C20_EventsChronological ==
  pc \in {"done", "shown"} =>
    \A k \in 1..(Len(result.events) - 1) :
      result.events[k].time <= result.events[k + 1].time

\* the log of the result holds an ARRIVAL entry after a SERVICE_START
\* entry of an earlier time: the sort moved entries, since the entries of
\* the arrivals are all pushed before those of the services
C20_Witness ==
  /\ pc = "done"
  /\ \E j, k \in 1..Len(result.events) :
       /\ j < k
       /\ result.events[j].type = "SERVICE_START"
       /\ result.events[k].type = "ARRIVAL"
       /\ result.events[j].time < result.events[k].time

\* the positions of the customers of a result that have a service end time
Finished(res) ==
  {i \in 1..Len(res.customers) : res.customers[i].serviceEndTime # NULL}

\* C21: the metrics count finished customers only.  throughput is the
\* number of customers with a service end time; the Happy, Neutral and
\* Angry tallies count the finished customers of that sentiment and sum
\* to throughput, so that a customer who was never assigned, and keeps
\* the default sentiment, is in none of them.
C21_MetricsCountFinished ==
  pc = "done" =>
    LET m == result.metrics
        Tally(s) == Cardinality({i \in Finished(result) :
                                   result.customers[i].sentiment = s})
    IN  /\ m.throughput = Cardinality(Finished(result))
        /\ m.sentimentStats.happy = Tally(HAPPY)
        /\ m.sentimentStats.neutral = Tally(NEUTRAL)
        /\ m.sentimentStats.angry = Tally(ANGRY)
        /\ m.sentimentStats.happy + m.sentimentStats.neutral
             + m.sentimentStats.angry = m.throughput

\* a result with finished customers and with a customer who was never
\* assigned and is Happy by default
C21_Witness ==
  /\ pc = "done"
  /\ result.metrics.throughput >= 2
  /\ \E i \in 1..Len(result.customers) :
       /\ i \notin Finished(result)
       /\ result.customers[i].sentiment = HAPPY
  /\ result.metrics.sentimentStats.happy
       < Cardinality({i \in 1..Len(result.customers) :
                        result.customers[i].sentiment = HAPPY})

\* the positions of the finished customers of a type
FinishedOfType(res, type) ==
  {i \in Finished(res) : res.customers[i].type = type}

\* the average a / n is the number 0: the sum is 0 and the divisor is not
IsZero(avg) == avg.sum = 0 /\ avg.count # 0

\* C22: the wait metrics do not fail on empty sets.  With no finished
\* customer avgWaitTime and maxWaitTime are 0; with no finished customer
\* of a type the average wait of that type is 0.
C22_EmptyAverages ==
  pc = "done" =>
    LET m == result.metrics
    IN  /\ Finished(result) = {} =>
              IsZero(m.avgWaitTime) /\ m.maxWaitTime = 0
        /\ FinishedOfType(result, WALK_IN) = {} =>
              IsZero(m.avgWaitTimeWalkIn)
        /\ FinishedOfType(result, RESERVED) = {} =>
              IsZero(m.avgWaitTimeReserved)
        /\ m.avgWaitTime.count # 0
        /\ m.avgWaitTimeWalkIn.count # 0
        /\ m.avgWaitTimeReserved.count # 0

\* a result whose finished customers are all Reserved and had to wait on
\* average, so that one average is of an empty set and the other is not
C22_Witness ==
  /\ pc = "done"
  /\ FinishedOfType(result, WALK_IN) = {}
  /\ FinishedOfType(result, RESERVED) # {}
  /\ result.metrics.avgWaitTimeReserved.sum > 0

\* the positions of the finished customers of a line served by a teller
ServedBy(res, st, idx) ==
  {i \in Finished(res) : /\ res.customers[i].serviceType = st
                          /\ res.customers[i].tellerId = idx}

\* the sum of the service durations of the customers at a set of positions
RECURSIVE ServiceSum(_, _)
ServiceSum(cs, S) ==
  IF S = {} THEN 0
  ELSE LET i == CHOOSE j \in S : TRUE
       IN  cs[i].serviceTime + ServiceSum(cs, S \ {i})

\* the rows of the tellers of a line in the metrics of a result
TellerRows(res, st) ==
  IF st = HIGH_COUNTER THEN res.metrics.tellerStats.high
  ELSE res.metrics.tellerStats.low

\* C23: per-teller statistics.  For every line and every teller index of
\* the line there is exactly one row; its servedCount is the number of
\* finished customers of the line assigned to the index, its busyTime the
\* sum of their service durations, its idleTime max(0, horizon - busyTime)
\* and its utilization min(1, busyTime / horizon), so that idleTime >= 0
\* and 0 <= utilization <= 1 also when busyTime exceeds the horizon.
C23_TellerStats ==
  pc = "done" =>
    \A st \in ServiceType :
      LET rows == TellerRows(result, st)
          horizon == config.durationMinutes
      IN  /\ Len(rows) = LineConfig(config, st).count
          /\ \A idx \in 0..(LineConfig(config, st).count - 1) :
               /\ Cardinality({k \in 1..Len(rows) : rows[k].id = idx}) = 1
               /\ LET row == rows[idx + 1]
                       busy == ServiceSum(result.customers,
                                          ServedBy(result, st, idx))
                   IN  /\ row.id = idx
                       /\ row.servedCount
                            = Cardinality(ServedBy(result, st, idx))
                       /\ row.busyTime = busy
                       /\ row.idleTime
                            = (IF busy > horizon THEN 0 ELSE horizon - busy)
                       /\ row.idleTime >= 0
                       /\ row.utilization.den = horizon
                       /\ row.utilization.num
                            = (IF busy > horizon THEN horizon ELSE busy)
                       /\ 0 <= row.utilization.num
                       /\ row.utilization.num <= row.utilization.den

\* a teller that served customers for longer than the horizon
C23_Witness ==
  /\ pc = "done"
  /\ \E st \in ServiceType :
       \E k \in 1..Len(TellerRows(result, st)) :
         /\ TellerRows(result, st)[k].servedCount >= 1
         /\ TellerRows(result, st)[k].busyTime > config.durationMinutes
         /\ TellerRows(result, st)[k].idleTime = 0

\* the smallest timestamp of the events pending in a non-empty pq
LeastTime(q) ==
  CHOOSE t \in {q[k].time : k \in 1..Len(q)} :
    \A k \in 1..Len(q) : t <= q[k].time

\* C24: every iteration of the event loop consumes a pending event with
\* the smallest timestamp, and when a TELLER_FREE event and an ARRIVAL
\* event are both pending with that timestamp the TELLER_FREE event is
\* consumed first.
C24_SmallestFirst ==
  [][ InLoop =>
        /\ event'.time = LeastTime(pq)
        /\ ( \E k \in 1..Len(pq) :
               pq[k].type = "TELLER_FREE" /\ pq[k].time = LeastTime(pq) )
           => event'.type = "TELLER_FREE"
    ]_vars

\* the tellers of the current line that are free at time t
FreeTellers(t) ==
  {k \in DOMAIN tellersFreeAt[line] : tellersFreeAt[line][k] <= t}

LogCount(es, type, id) ==
  Cardinality({k \in 1..Len(es) : es[k].type = type /\ es[k].customerId = id})

\* C26: every customer is assigned at most once.  assignService runs at
\* most one time per customer, so no step adds a SERVICE_START entry to
\* the log for a customer that has a start time already, and once a
\* customer has a start time its start time, end time, wait, teller and
\* sentiment never change.
C26_AssignedOnce ==
  [][ \A i \in Ids :
        IsAssigned(customers[i]) =>
          /\ i <= Len(customers')
          /\ customers'[i].id = customers[i].id
          /\ customers'[i].serviceStartTime = customers[i].serviceStartTime
          /\ customers'[i].serviceEndTime = customers[i].serviceEndTime
          /\ customers'[i].waitTime = customers[i].waitTime
          /\ customers'[i].tellerId = customers[i].tellerId
          /\ customers'[i].sentiment = customers[i].sentiment
          /\ \A k \in (Len(events) + 1)..Len(events') :
               ~( /\ events'[k].type = "SERVICE_START"
                  /\ events'[k].customerId = customers[i].id )
    ]_vars

\* a run has ended in which a customer waited in the buffer and was
\* assigned by a TELLER_FREE event, after which further events of its
\* line were processed
C26_Witness ==
  /\ pc = "done"
  /\ Len(customers) >= 3
  /\ \A i \in Ids : IsAssigned(customers[i])
  /\ \E i, j \in Ids :
       /\ customers[i].waitTime > 0
       /\ customers[j].serviceType = customers[i].serviceType
       /\ customers[j].serviceStartTime > customers[i].serviceStartTime
  /\ \A i \in Ids : LogCount(events, "SERVICE_START", customers[i].id) = 1

LogEntries(es, type, id, t) ==
  {k \in 1..Len(es) :
     es[k].type = type /\ es[k].customerId = id /\ es[k].time = t}

\* C28: the final log is complete.  It holds exactly one ARRIVAL entry per
\* generated customer, at its arrival time; for every assigned customer
\* exactly one SERVICE_START entry, at its start time, and exactly one
\* SERVICE_END entry, at its end time; and no service entry for a
\* customer that was never assigned.
C28_LogComplete ==
  pc = "done" =>
    LET es == result.events
        cs == result.customers
    IN  /\ \A i \in 1..Len(cs) :
             LET c == cs[i]
                 n == IF IsAssigned(c) THEN 1 ELSE 0
             IN  /\ LogCount(es, "ARRIVAL", c.id) = 1
                 /\ Cardinality(LogEntries(es, "ARRIVAL", c.id,
                                           c.arrivalTime)) = 1
                 /\ LogCount(es, "SERVICE_START", c.id) = n
                 /\ LogCount(es, "SERVICE_END", c.id) = n
                 /\ Cardinality(LogEntries(es, "SERVICE_START", c.id,
                                           c.serviceStartTime)) = n
                 /\ Cardinality(LogEntries(es, "SERVICE_END", c.id,
                                           c.serviceEndTime)) = n
        /\ \A k \in 1..Len(es) :
             /\ es[k].type \in {"ARRIVAL", "SERVICE_START", "SERVICE_END"}
             /\ \E i \in 1..Len(cs) : cs[i].id = es[k].customerId

\* the log of a run with three customers, two of them assigned and one
\* never assigned
C28_Witness ==
  /\ pc = "done"
  /\ \E i, j \in 1..Len(result.customers) :
       /\ IsAssigned(result.customers[i])
       /\ ~IsAssigned(result.customers[j])
  /\ Len(result.customers) = 3
  /\ Len(result.events) = 7

\* C29: the engine is work-conserving.  After every processed event of a
\* line, a non-empty waiting buffer means that every teller of the line
\* has a free-at greater than the time of the event; and an arriving
\* customer that finds a free teller finds the waiting buffer empty, so
\* that an arrival never jumps ahead of a waiting customer.
C29_WorkConserving ==
  [][ InLoop =>
        /\ waitingBuffer' # << >> =>
             \A k \in DOMAIN tellersFreeAt'[line] :
               tellersFreeAt'[line][k] > event'.time
        /\ ( event'.type = "ARRIVAL" /\ FreeTellers(event'.time) # {} )
             => waitingBuffer = << >>
    ]_vars

\* the times a snapshot of a result is examined at: the playback times,
\* every arrival, start and end time of a customer, and the tick before
\* and after each
ExaminedTimes(res) ==
  LET marks == SnapshotTimes
                 \cup {res.customers[i].arrivalTime :
                         i \in 1..Len(res.customers)}
                 \cup {res.customers[i].serviceStartTime :
                         i \in 1..Len(res.customers)}
                 \cup {res.customers[i].serviceEndTime :
                         i \in 1..Len(res.customers)}
  IN  {t \in UNION {{m - 1, m, m + 1} : m \in marks \ {NULL}} : t >= 0}

\* how often an id occurs in a sequence or array of ids
Places(ids, id) == Cardinality({k \in DOMAIN ids : ids[k] = id})

\* the number of non-null slots of a teller array
Occupied(slots) == Cardinality({k \in DOMAIN slots : slots[k] # NULL})

\* C30: snapshot conservation.  In the snapshot of a result at a time t,
\* every customer with arrivalTime <= t is in exactly one of the waiting
\* queue of its line, a teller slot of its line and the finished
\* customers, and every customer with arrivalTime > t is in none, so that
\* the lengths of the two queues, the number of non-null slots and
\* finishedCount add up to the number of customers with arrivalTime <= t.
C30_SnapshotConservation ==
  pc = "done" =>
    \A t \in ExaminedTimes(result) :
    \A snap \in {getSnapshotAtTime(result, t)} :
      LET cs == result.customers
          Queue(st) == IF st = HIGH_COUNTER THEN snap.customersInQueueHigh
                       ELSE snap.customersInQueueLow
          Slots(st) == IF st = HIGH_COUNTER THEN snap.customersAtTellerHigh
                       ELSE snap.customersAtTellerLow
          IsDone(c) == c.serviceEndTime # NULL /\ c.serviceEndTime <= t
          arrived == {i \in 1..Len(cs) : cs[i].arrivalTime <= t}
      IN  /\ \A i \in 1..Len(cs) :
               LET c == cs[i]
                   own == Places(Queue(c.serviceType), c.id)
                            + Places(Slots(c.serviceType), c.id)
                            + (IF IsDone(c) THEN 1 ELSE 0)
               IN  /\ own = (IF i \in arrived THEN 1 ELSE 0)
                   /\ \A st \in ServiceType \ {c.serviceType} :
                        Places(Queue(st), c.id) + Places(Slots(st), c.id) = 0
          /\ snap.finishedCount
               = Cardinality({i \in 1..Len(cs) : IsDone(cs[i])})
          /\ Len(snap.customersInQueueHigh) + Len(snap.customersInQueueLow)
               + Occupied(snap.customersAtTellerHigh)
               + Occupied(snap.customersAtTellerLow)
               + snap.finishedCount
             = Cardinality(arrived)

\* a result with a time at which one customer has finished, one is at a
\* teller, one waits in the queue
C30_Witness ==
  /\ pc = "done"
  /\ \E t \in ExaminedTimes(result) :
       LET snap == getSnapshotAtTime(result, t)
       IN  /\ snap.finishedCount >= 1
           /\ Occupied(snap.customersAtTellerLow) >= 1
           /\ Len(snap.customersInQueueLow) >= 1

\* C31: a Reserved customer is never overtaken by a later Walk-in.  For a
\* Reserved customer r and a Walk-in customer w of the same line, r
\* arriving strictly before w, the service of w does not start earlier
\* than the service of r.
C31_ReservedNotOvertaken ==
  \A r, w \in Ids :
    ( /\ customers[r].serviceType = customers[w].serviceType
      /\ customers[r].type = RESERVED
      /\ customers[w].type = WALK_IN
      /\ customers[r].arrivalTime < customers[w].arrivalTime
      /\ IsAssigned(customers[r])
      /\ IsAssigned(customers[w]) )
    => customers[r].serviceStartTime <= customers[w].serviceStartTime

\* the position of the one log entry of a type for a customer
LogPosition(es, type, id) ==
  CHOOSE k \in 1..Len(es) : es[k].type = type /\ es[k].customerId = id

\* C32: the order of the entries of one customer in the final log.  For
\* every assigned customer the ARRIVAL entry comes before the
\* SERVICE_START entry and the SERVICE_START entry before the SERVICE_END
\* entry, also when the wait is 0 and ARRIVAL and SERVICE_START carry the
\* same time.
C32_LogOrderPerCustomer ==
  pc = "done" =>
    \A i \in 1..Len(result.customers) :
      LET c == result.customers[i]
          es == result.events
      IN  IsAssigned(c) =>
            /\ LogPosition(es, "ARRIVAL", c.id)
                 < LogPosition(es, "SERVICE_START", c.id)
            /\ LogPosition(es, "SERVICE_START", c.id)
                 < LogPosition(es, "SERVICE_END", c.id)

\* the final log of a run in which one customer started on arrival, at a
\* time at which another customer ended its service, and one customer
\* had to wait
C32_Witness ==
  /\ pc = "done"
  /\ \E i, j, k \in 1..Len(result.customers) :
       /\ IsAssigned(result.customers[i])
       /\ result.customers[i].waitTime = 0
       /\ result.customers[j].serviceEndTime
            = result.customers[i].arrivalTime
       /\ j # i
       /\ result.customers[k].waitTime > 0

=============================================================================
